---- MODULE Spec2Model ----
(***************************************************************************)
(* A model of class Face of flatten-js (src/src/classes/face.js): a face   *)
(* is a circular doubly linked list of edges, entered through first/last,  *)
(* with two lazily computed caches (_box, _orientation).  The edges live   *)
(* in polygon.edges, a set with a spatial index.                           *)
(*                                                                         *)
(* Edge objects are numbered 1..MaxEdges in the order `new Edge(shape)`    *)
(* creates them; faces are named by strings.  Every method of Face is an   *)
(* operator from heap to heap (the heap is the record of all variables);   *)
(* the actions apply these operators.                                      *)
(***************************************************************************)
EXTENDS Integers, Sequences, FiniteSets, TLC

VARIABLES first, last, _box, _orientation,      \* fields of each Face
          next, prev, shape, face, arc_length,  \* fields of each Edge
          edges,                                \* polygon.edges
          nEdges,                               \* Edge objects created so far
          made,                                 \* faces whose constructor has run
          args,                                 \* the arguments of the last constructor call
          ret,                                  \* the last call and what it returned
          hist                                  \* the loop before a run of reverse() calls

vars == <<first, last, _box, _orientation, next, prev, shape, face, arc_length,
          edges, nEdges, made, args, ret, hist>>

---------------------------------------------------------------------------
(* Bounds *)

\* Edge objects ever created in one behaviour.
MaxEdges == 3

\* Points, and so edges, of a face built from an array of points.
MaxPts == 4

\* Elements of an array of mixed elements given to the constructor.
MaxItems == 3

\* Coordinates of the points of an array of points: 0..GridMax.
GridMax == 1

\* Lengths are carried in units of 1/LenScale (fixed point for Math.sqrt).
LenScale == 10

---------------------------------------------------------------------------
(* Values *)

\* Edge objects the model has room for.
MaxIds == IF MaxPts > MaxEdges THEN MaxPts ELSE MaxEdges

EdgeIds == 1..MaxIds

\* An absent edge reference (this.first; this.last; edge.next; edge.prev).
NoEdge == 0

\* JavaScript's undefined, where the slot otherwise holds an object.
undefined == [cls |-> "undefined"]

Faces == {"F", "G"}

point(x, y) == [cls |-> "Point", x |-> x, y |-> y]

segment(ps, pe) == [cls |-> "Segment", ps |-> ps, pe |-> pe]

Min(a, b) == IF a <= b THEN a ELSE b

Max(a, b) == IF a >= b THEN a ELSE b

Abs(a) == IF a < 0 THEN -a ELSE a

\* floor(sqrt(n))
ISqrt(n) == CHOOSE r \in 0..n : r * r <= n /\ (r + 1) * (r + 1) > n

\* new Box(): all four bounds undefined.
EmptyBox == [cls |-> "Box", def |-> FALSE, xmin |-> 0, ymin |-> 0, xmax |-> 0, ymax |-> 0]

Box(xmin, ymin, xmax, ymax) ==
    [cls |-> "Box", def |-> TRUE, xmin |-> xmin, ymin |-> ymin, xmax |-> xmax, ymax |-> ymax]

\* box.merge(other): an undefined bound of this takes the other's.
merge(b, o) ==
    IF ~b.def THEN o
    ELSE IF ~o.def THEN b
    ELSE Box(Min(b.xmin, o.xmin), Min(b.ymin, o.ymin), Max(b.xmax, o.xmax), Max(b.ymax, o.ymax))

\* An arc of the circle of centre pc and radius r.  Angles are counted in quarter
\* turns (1 is PI/2), so that the ends of an arc have integer coordinates.
arc(pc, r, startAngle, endAngle, counterClockwise) ==
    [cls |-> "Arc", pc |-> pc, r |-> r, startAngle |-> startAngle, endAngle |-> endAngle,
     counterClockwise |-> counterClockwise]

circle(pc, r) == [cls |-> "Circle", pc |-> pc, r |-> r]

\* circle.toArc(counterClockwise): the whole circle, from PI to -PI.
toArc(c, counterClockwise) == arc(c.pc, c.r, 2, -2, counterClockwise)

cosQ(q) == CASE q % 4 = 0 -> 1 [] q % 4 = 2 -> -1 [] OTHER -> 0

sinQ(q) == CASE q % 4 = 1 -> 1 [] q % 4 = 3 -> -1 [] OTHER -> 0

\* The point of the arc's circle at angle q.
arcPoint(a, q) == point(a.pc.x + a.r * cosQ(q), a.pc.y + a.r * sinQ(q))

\* arc.sweep, in quarter turns
sweep(a) ==
    IF a.startAngle = a.endAngle THEN 0
    ELSE IF Abs(a.startAngle - a.endAngle) = 4 THEN 4
    ELSE LET s == IF a.counterClockwise
                  THEN (IF a.endAngle > a.startAngle THEN a.endAngle - a.startAngle
                        ELSE a.endAngle - a.startAngle + 4)
                  ELSE (IF a.startAngle > a.endAngle THEN a.startAngle - a.endAngle
                        ELSE a.startAngle - a.endAngle + 4)
             s1 == IF s > 4 THEN s - 4 ELSE s
         IN IF s1 < 0 THEN s1 + 4 ELSE s1

\* The angle the arc has reached after k quarter turns.
arcAngle(a, k) == IF a.counterClockwise THEN a.startAngle + k ELSE a.startAngle - k

\* shape.start, shape.end
start(s) == IF s.cls = "Arc" THEN arcPoint(s, s.startAngle) ELSE s.ps

end(s) == IF s.cls = "Arc" THEN arcPoint(s, s.endAngle) ELSE s.pe

pointBox(p) == Box(p.x, p.y, p.x, p.y)

RECURSIVE arcBox(_, _, _)
arcBox(a, k, b) ==
    IF k > sweep(a) THEN b ELSE arcBox(a, k + 1, merge(b, pointBox(arcPoint(a, arcAngle(a, k)))))

\* shape.box; an arc's box covers its start, its end and the extreme points of
\* the circle it passes.
shapeBox(s) ==
    IF s.cls = "Arc" THEN merge(arcBox(s, 0, EmptyBox), pointBox(end(s)))
    ELSE Box(Min(s.ps.x, s.pe.x), Min(s.ps.y, s.pe.y), Max(s.ps.x, s.pe.x), Max(s.ps.y, s.pe.y))

\* shape.length, in units of 1/LenScale (PI/2 is taken as 1.57)
length(s) ==
    IF s.cls = "Arc" THEN (sweep(s) * s.r * LenScale * 157) \div 100
    ELSE LET dx == s.pe.x - s.ps.x
             dy == s.pe.y - s.ps.y
         IN ISqrt(LenScale * LenScale * (dx * dx + dy * dy))

\* shape.reverse(): a new shape running the other way.
shapeReverse(s) ==
    IF s.cls = "Arc" THEN arc(s.pc, s.r, s.endAngle, s.startAngle, ~s.counterClockwise)
    ELSE segment(s.pe, s.ps)

---------------------------------------------------------------------------
(* The heap *)

Heap ==
    [first |-> first, last |-> last, _box |-> _box, _orientation |-> _orientation,
     next |-> next, prev |-> prev, shape |-> shape, face |-> face,
     arc_length |-> arc_length, edges |-> edges, nEdges |-> nEdges]

Store(h) ==
    /\ first' = h.first
    /\ last' = h.last
    /\ _box' = h._box
    /\ _orientation' = h._orientation
    /\ next' = h.next
    /\ prev' = h.prev
    /\ shape' = h.shape
    /\ face' = h.face
    /\ arc_length' = h.arc_length
    /\ edges' = h.edges
    /\ nEdges' = h.nEdges

\* new Edge(shape): the next unused edge object; its links and face are undefined.
newEdge(h, s) ==
    LET e == h.nEdges + 1
    IN [h EXCEPT !.nEdges = e, !.shape[e] = s, !.next[e] = NoEdge, !.prev[e] = NoEdge,
                 !.face[e] = "undefined", !.arc_length[e] = 0]

\* The edges an object of the program still refers to: those of polygon.edges,
\* the first and last of every face, and what these reach along next and prev.
RECURSIVE reachFrom(_, _)
reachFrom(h, S) ==
    LET T == (S \cup {h.next[e] : e \in S} \cup {h.prev[e] : e \in S}) \ {NoEdge}
    IN IF T = S THEN S ELSE reachFrom(h, T)

live(h) ==
    reachFrom(h, (h.edges \cup {h.first[f] : f \in Faces} \cup {h.last[f] : f \in Faces}) \ {NoEdge})

\* An Edge nothing refers to any more is garbage: the model forgets its fields.
\* Edge objects are never reused, so nEdges stays.
collect(h) ==
    LET dead == (1..h.nEdges) \ live(h)
    IN [h EXCEPT !.next = [e \in EdgeIds |-> IF e \in dead THEN NoEdge ELSE @[e]],
                 !.prev = [e \in EdgeIds |-> IF e \in dead THEN NoEdge ELSE @[e]],
                 !.shape = [e \in EdgeIds |-> IF e \in dead THEN undefined ELSE @[e]],
                 !.face = [e \in EdgeIds |-> IF e \in dead THEN "undefined" ELSE @[e]],
                 !.arc_length = [e \in EdgeIds |-> IF e \in dead THEN 0 ELSE @[e]]]

---------------------------------------------------------------------------
(* Face[Symbol.iterator] *)

\* One call of the iterator's next() with the iterator's variable at `edge`.
iterValue(h, f, edge) == IF edge # NoEdge THEN edge ELSE h.first[f]

iterDone(h, f, edge) ==
    IF h.first[f] # NoEdge THEN (IF edge # NoEdge THEN edge = h.first[f] ELSE FALSE) ELSE TRUE

iterAdvance(h, f, edge) ==
    LET value == iterValue(h, f, edge)
    IN IF value # NoEdge THEN h.next[value] ELSE NoEdge

\* The values a for-of loop over the face sees.  The loop of a well-formed face
\* ends; one that has not ended after MaxIds + 2 calls has repeated a state of
\* the iterator and never ends: the sequence then ends with NoEdge.
RECURSIVE iterate(_, _, _, _)
iterate(h, f, edge, fuel) ==
    IF iterDone(h, f, edge) THEN <<>>
    ELSE IF fuel = 0 THEN <<NoEdge>>
    ELSE <<iterValue(h, f, edge)>> \o iterate(h, f, iterAdvance(h, f, edge), fuel - 1)

faceIter(h, f) == iterate(h, f, NoEdge, MaxIds + 2)

\* Whether a for-of loop over the face ends.
iterEnds(h, f) == LET s == faceIter(h, f) IN IF s = <<>> THEN TRUE ELSE s[Len(s)] # NoEdge

\* get edges()
faceEdges(h, f) == faceIter(h, f)

\* get size(); -1 stands for a loop that never ends.
size(h, f) == IF iterEnds(h, f) THEN Len(faceIter(h, f)) ELSE -1

isEmpty(h, f) == h.first[f] = NoEdge /\ h.last[f] = NoEdge

---------------------------------------------------------------------------
(* Mutation *)

append(h, f, edge) ==
    LET h1 == IF h.first[f] = NoEdge
              THEN [h EXCEPT !.prev[edge] = edge, !.next[edge] = edge,
                             !.first[f] = edge, !.last[f] = edge, !.arc_length[edge] = 0]
              ELSE LET a == [h EXCEPT !.prev[edge] = h.last[f]]
                       b == [a EXCEPT !.next[a.last[f]] = edge]
                       c == [b EXCEPT !.last[f] = edge]
                       d == [c EXCEPT !.next[c.last[f]] = c.first[f]]
                       g == [d EXCEPT !.prev[d.first[f]] = d.last[f]]
                   IN [g EXCEPT !.arc_length[edge] =
                                   g.arc_length[g.prev[edge]] + length(g.shape[g.prev[edge]])]
        h2 == [h1 EXCEPT !.face[edge] = f]
    IN [h2 EXCEPT !.edges = @ \cup {edge}]

\* insert() without its "extend chain if new edge added after last edge" step.
insert_keepsFirst(h, f, new, edgeBefore) ==
    LET h1 == IF h.first[f] = NoEdge
              THEN [h EXCEPT !.prev[new] = new, !.next[new] = new,
                             !.first[f] = new, !.last[f] = new]
              ELSE LET edgeAfter == h.next[edgeBefore]
                       a == [h EXCEPT !.next[edgeBefore] = new]
                       b == [a EXCEPT !.prev[edgeAfter] = new]
                       c == [b EXCEPT !.prev[new] = edgeBefore]
                   IN [c EXCEPT !.next[new] = edgeAfter]
        h2 == [h1 EXCEPT !.face[new] = f]
        h3 == IF h2.prev[new] = h2.last[f]
              THEN [h2 EXCEPT !.arc_length[new] = 0]
              ELSE [h2 EXCEPT !.arc_length[new] =
                                 h2.arc_length[h2.prev[new]] + length(h2.shape[h2.prev[new]])]
    IN [h3 EXCEPT !.edges = @ \cup {new}]

\* insert() that, after the last edge, makes the new edge the last one.
insert_movesLast(h, f, new, edgeBefore) ==
    LET h1 == IF h.first[f] = NoEdge
              THEN [h EXCEPT !.prev[new] = new, !.next[new] = new,
                             !.first[f] = new, !.last[f] = new]
              ELSE LET edgeAfter == h.next[edgeBefore]
                       a == [h EXCEPT !.next[edgeBefore] = new]
                       b == [a EXCEPT !.prev[edgeAfter] = new]
                       c == [b EXCEPT !.prev[new] = edgeBefore]
                       d == [c EXCEPT !.next[new] = edgeAfter]
                   IN IF d.last[f] = edgeBefore THEN [d EXCEPT !.last[f] = new] ELSE d
        h2 == [h1 EXCEPT !.face[new] = f]
        h3 == IF h2.prev[new] = h2.last[f]
              THEN [h2 EXCEPT !.arc_length[new] = 0]
              ELSE [h2 EXCEPT !.arc_length[new] =
                                 h2.arc_length[h2.prev[new]] + length(h2.shape[h2.prev[new]])]
    IN [h3 EXCEPT !.edges = @ \cup {new}]

insert(h, f, new, edgeBefore) ==
    LET h1 == IF h.first[f] = NoEdge
              THEN [h EXCEPT !.prev[new] = new, !.next[new] = new,
                             !.first[f] = new, !.last[f] = new]
              ELSE LET edgeAfter == h.next[edgeBefore]
                       a == [h EXCEPT !.next[edgeBefore] = new]
                       b == [a EXCEPT !.prev[edgeAfter] = new]
                       c == [b EXCEPT !.prev[new] = edgeBefore]
                       d == [c EXCEPT !.next[new] = edgeAfter]
                   IN IF d.last[f] = edgeBefore THEN [d EXCEPT !.first[f] = new] ELSE d
        h2 == [h1 EXCEPT !.face[new] = f]
        h3 == IF h2.prev[new] = h2.last[f]
              THEN [h2 EXCEPT !.arc_length[new] = 0]
              ELSE [h2 EXCEPT !.arc_length[new] =
                                 h2.arc_length[h2.prev[new]] + length(h2.shape[h2.prev[new]])]
    IN [h3 EXCEPT !.edges = @ \cup {new}]

\* remove() that gives the arc length of the removed edge to its successor.
remove_shiftsNext(h, f, edge) ==
    LET h1 == IF edge = h.first[f] /\ edge = h.last[f]
              THEN [h EXCEPT !.first[f] = NoEdge, !.last[f] = NoEdge]
              ELSE LET a == [h EXCEPT !.next[h.prev[edge]] = h.next[edge]]
                       b == [a EXCEPT !.prev[a.next[edge]] = a.prev[edge]]
                       c == IF edge = b.first[f] THEN [b EXCEPT !.first[f] = b.next[edge]] ELSE b
                       d == IF edge = c.last[f] THEN [c EXCEPT !.last[f] = c.prev[edge]] ELSE c
                   IN [d EXCEPT !.arc_length[d.next[edge]] = d.arc_length[edge]]
    IN [h1 EXCEPT !.edges = @ \ {edge}]

\* remove() that forgets to clear `last` when the only edge goes.
remove_keepsIndex(h, f, edge) ==
    IF edge = h.first[f] /\ edge = h.last[f]
    THEN [h EXCEPT !.first[f] = NoEdge, !.last[f] = NoEdge]
    ELSE LET a == [h EXCEPT !.next[h.prev[edge]] = h.next[edge]]
             b == [a EXCEPT !.prev[a.next[edge]] = a.prev[edge]]
             c == IF edge = b.first[f] THEN [b EXCEPT !.first[f] = b.next[edge]] ELSE b
         IN IF edge = c.last[f] THEN [c EXCEPT !.last[f] = c.prev[edge]] ELSE c

remove_keepsLast(h, f, edge) ==
    LET h1 == IF edge = h.first[f] /\ edge = h.last[f]
              THEN [h EXCEPT !.first[f] = NoEdge]
              ELSE LET a == [h EXCEPT !.next[h.prev[edge]] = h.next[edge]]
                       b == [a EXCEPT !.prev[a.next[edge]] = a.prev[edge]]
                       c == IF edge = b.first[f] THEN [b EXCEPT !.first[f] = b.next[edge]] ELSE b
                   IN IF edge = c.last[f] THEN [c EXCEPT !.last[f] = c.prev[edge]] ELSE c
    IN [h1 EXCEPT !.edges = @ \ {edge}]

remove(h, f, edge) ==
    LET h1 == IF edge = h.first[f] /\ edge = h.last[f]
              THEN [h EXCEPT !.first[f] = NoEdge, !.last[f] = NoEdge]
              ELSE LET a == [h EXCEPT !.next[h.prev[edge]] = h.next[edge]]
                       b == [a EXCEPT !.prev[a.next[edge]] = a.prev[edge]]
                       c == IF edge = b.first[f] THEN [b EXCEPT !.first[f] = b.next[edge]] ELSE b
                   IN IF edge = c.last[f] THEN [c EXCEPT !.last[f] = c.prev[edge]] ELSE c
    IN [h1 EXCEPT !.edges = @ \ {edge}]

---------------------------------------------------------------------------
(* Numbers: signedArea() and the integrals it sums are carried in units of 1/2, *)
(* so that the division by two of a segment's integral is exact.  A number is   *)
(* v + p * PI/2 (the integral of an arc has a multiple of PI/2), or NaN.        *)

NumPi(v, p) == [nan |-> FALSE, v |-> v, p |-> p]

Num(v) == NumPi(v, 0)

NaN == [nan |-> TRUE, v |-> 0, p |-> 0]

Plus(a, b) == IF a.nan \/ b.nan THEN NaN ELSE NumPi(a.v + b.v, a.p + b.p)

Minus(a, b) == IF a.nan \/ b.nan THEN NaN ELSE NumPi(a.v - b.v, a.p - b.p)

\* The sign of v + p * PI/2, with PI taken as 3.14159: exact for the small v and
\* p of the model.
Sign(a) ==
    LET x == 200000 * a.v + 314159 * a.p
    IN IF x < 0 THEN -1 ELSE IF x > 0 THEN 1 ELSE 0

\* Flatten.Utils.EQ_0 and LT: DP_TOL is far below 1/2; a comparison with NaN is false.
EQ_0(a) == ~a.nan /\ a.v = 0 /\ a.p = 0

LT(a, b) == ~a.nan /\ ~b.nan /\ Sign(Minus(a, b)) < 0

\* box.ymin, undefined on new Box(): arithmetic on undefined gives NaN.
ymin(b) == IF b.def THEN Num(b.ymin) ELSE NaN

\* segment.definiteIntegral(ymin) = dx * (dy1 + dy2) / 2; the value returned here
\* is in units of 1/2, that is dx * (dy1 + dy2).
segmentIntegral(ps, pe, ym) ==
    LET dx == pe.x - ps.x
        dy1 == ps.y - ym.v
        dy2 == pe.y - ym.v
    IN Num(dx * (dy1 + dy2))

\* arc.definiteIntegral(ymin): the arc is cut at the extreme points of its circle;
\* each quarter contributes the integral of its chord, less (counter-clockwise:
\* the centre is left of the chord) or plus the area of the circular segment,
\* r^2 * (PI/2 - 1) / 2.
RECURSIVE arcIntegral(_, _, _, _)
arcIntegral(a, k, ym, acc) ==
    IF k > sweep(a) THEN acc
    ELSE LET trapez == segmentIntegral(arcPoint(a, arcAngle(a, k - 1)), arcPoint(a, arcAngle(a, k)), ym)
             circSeg == NumPi(-(a.r * a.r), a.r * a.r)
             part == IF a.counterClockwise THEN Minus(trapez, circSeg) ELSE Plus(trapez, circSeg)
         IN arcIntegral(a, k + 1, ym, Plus(acc, part))

definiteIntegral(s, ym) ==
    IF ym.nan THEN NaN
    ELSE IF s.cls = "Arc" THEN arcIntegral(s, 1, ym, Num(0))
    ELSE segmentIntegral(s.ps, s.pe, ym)

---------------------------------------------------------------------------
(* Derived properties *)

RECURSIVE mergeBoxes(_, _, _, _)
mergeBoxes(h, es, i, b) ==
    IF i > Len(es) THEN b ELSE mergeBoxes(h, es, i + 1, merge(b, shapeBox(h.shape[es[i]])))

\* get box() that computes the box on every read.
box_uncached(h, f) == [h EXCEPT !._box[f] = mergeBoxes(h, faceIter(h, f), 1, EmptyBox)]

\* get box(): computes and caches on the first read.
box(h, f) ==
    IF h._box[f] = undefined
    THEN [h EXCEPT !._box[f] = mergeBoxes(h, faceIter(h, f), 1, EmptyBox)]
    ELSE h

RECURSIVE sumIntegrals(_, _, _, _, _)
sumIntegrals(h, es, i, ym, sArea) ==
    IF i > Len(es) THEN sArea
    ELSE sumIntegrals(h, es, i + 1, ym, Plus(sArea, definiteIntegral(h.shape[es[i]], ym)))

\* signedArea(): reads this.box, so it may fill the box cache.
signedAreaHeap(h, f) == box(h, f)

signedArea(h, f) ==
    LET h1 == box(h, f)
    IN sumIntegrals(h1, faceIter(h1, f), 1, ymin(h1._box[f]), Num(0))

\* area() without Math.abs
area_signed(h, f) == signedArea(h, f)

\* area() = Math.abs(signedArea())
area(h, f) == LET a == signedArea(h, f) IN IF a.nan THEN NaN ELSE IF Sign(a) < 0 THEN Minus(Num(0), a) ELSE a

\* orientation(): computes and caches on the first call.
orientation(h, f) ==
    IF h._orientation[f] = "undefined"
    THEN LET a == signedArea(h, f)
             h1 == signedAreaHeap(h, f)
         IN IF EQ_0(a) THEN [h1 EXCEPT !._orientation[f] = "NOT_ORIENTABLE"]
            ELSE IF LT(a, Num(0)) THEN [h1 EXCEPT !._orientation[f] = "CCW"]
            ELSE [h1 EXCEPT !._orientation[f] = "CW"]
    ELSE h

RECURSIVE setArcLengthFrom(_, _, _, _)
setArcLengthFrom(h, f, es, i) ==
    IF i > Len(es) THEN h
    ELSE LET edge == es[i]
             h1 == IF edge = h.first[f]
                   THEN [h EXCEPT !.arc_length[edge] = 0]
                   ELSE [h EXCEPT !.arc_length[edge] =
                                     h.arc_length[h.prev[edge]] + length(h.shape[h.prev[edge]])]
         IN setArcLengthFrom([h1 EXCEPT !.face[edge] = f], f, es, i + 1)

\* setArcLength() without the special case of the first edge.
RECURSIVE setArcLengthFrom_noFirst(_, _, _, _)
setArcLengthFrom_noFirst(h, f, es, i) ==
    IF i > Len(es) THEN h
    ELSE LET edge == es[i]
             h1 == [h EXCEPT !.arc_length[edge] =
                               h.arc_length[h.prev[edge]] + length(h.shape[h.prev[edge]])]
         IN setArcLengthFrom_noFirst([h1 EXCEPT !.face[edge] = f], f, es, i + 1)

setArcLength_noFirst(h, f) == setArcLengthFrom_noFirst(h, f, faceIter(h, f), 1)

setArcLength(h, f) == setArcLengthFrom(h, f, faceIter(h, f), 1)

---------------------------------------------------------------------------
(* reverse() *)

\* The do-while loop: from last along prev, reversing each shape, until last is
\* met again.  ok is FALSE when the walk does not come back to last.
RECURSIVE reverseCollect(_, _, _, _, _)
reverseCollect(h, f, edge_tmp, list, fuel) ==
    LET h1 == [h EXCEPT !.shape[edge_tmp] = shapeReverse(@)]
        list1 == Append(list, edge_tmp)
        nxt == h1.prev[edge_tmp]
    IN IF nxt = h1.last[f] THEN [h |-> h1, list |-> list1, ok |-> TRUE]
       ELSE IF fuel = 0 THEN [h |-> h1, list |-> list1, ok |-> FALSE]
       ELSE reverseCollect(h1, f, nxt, list1, fuel - 1)

\* The for loop that links the collected edges again, in their new order.
RECURSIVE reverseLink(_, _, _, _)
reverseLink(h, f, list, i) ==
    IF i > Len(list) THEN h
    ELSE LET edge == list[i]
             h1 == IF h.first[f] = NoEdge
                   THEN [h EXCEPT !.prev[edge] = edge, !.next[edge] = edge,
                                  !.first[f] = edge, !.last[f] = edge, !.arc_length[edge] = 0]
                   ELSE LET a == [h EXCEPT !.prev[edge] = h.last[f]]
                            b == [a EXCEPT !.next[a.last[f]] = edge]
                            c == [b EXCEPT !.last[f] = edge]
                            d == [c EXCEPT !.next[c.last[f]] = c.first[f]]
                            g == [d EXCEPT !.prev[d.first[f]] = d.last[f]]
                        IN [g EXCEPT !.arc_length[edge] =
                                        g.arc_length[g.prev[edge]] + length(g.shape[g.prev[edge]])]
         IN reverseLink(h1, f, list, i + 1)

\* reverse() reads this.last.shape first: on an empty face that is a TypeError.
reverseThrows(h, f) == h.last[f] = NoEdge

reverseEnds(h, f) ==
    ~reverseThrows(h, f) /\ reverseCollect(h, f, h.last[f], <<>>, MaxIds + 1).ok

\* reverse() whose do-while loop walks along next instead of prev.
RECURSIVE reverseCollect_next(_, _, _, _, _)
reverseCollect_next(h, f, edge_tmp, list, fuel) ==
    LET h1 == [h EXCEPT !.shape[edge_tmp] = shapeReverse(@)]
        list1 == Append(list, edge_tmp)
        nxt == h1.next[edge_tmp]
    IN IF nxt = h1.last[f] THEN [h |-> h1, list |-> list1, ok |-> TRUE]
       ELSE IF fuel = 0 THEN [h |-> h1, list |-> list1, ok |-> FALSE]
       ELSE reverseCollect_next(h1, f, nxt, list1, fuel - 1)

reverse_alongNext(h, f) ==
    LET c == reverseCollect_next(h, f, h.last[f], <<>>, MaxIds + 1)
        h1 == [c.h EXCEPT !.first[f] = NoEdge, !.last[f] = NoEdge]
        h2 == reverseLink(h1, f, c.list, 1)
    IN IF h2._orientation[f] # "undefined"
       THEN orientation([h2 EXCEPT !._orientation[f] = "undefined"], f)
       ELSE h2

reverse(h, f) ==
    LET c == reverseCollect(h, f, h.last[f], <<>>, MaxIds + 1)
        h1 == [c.h EXCEPT !.first[f] = NoEdge, !.last[f] = NoEdge]
        h2 == reverseLink(h1, f, c.list, 1)
    IN IF h2._orientation[f] # "undefined"
       THEN orientation([h2 EXCEPT !._orientation[f] = "undefined"], f)
       ELSE h2

---------------------------------------------------------------------------
(* Face.constructor *)

NoHist == [revs |-> 0]

\* Values a caller may pass besides points, segments, arcs, circles and boxes.
null == [cls |-> "null"]

number == [cls |-> "Number"]

array(items) == [cls |-> "Array", items |-> items]

faceRef(g) == [cls |-> "Face", id |-> g]

edgeRef(e) == [cls |-> "Edge", id |-> e]

\* A plain object as JSON.parse gives it: the fields of a shape and its name.
record(name, s) == [cls |-> "Object", name |-> name, s |-> s]

\* x.name: only a plain object has the property; reading it is not possible on
\* null and undefined.
hasNoProperties(x) == x.cls \in {"null", "undefined"}

nameOf(x) == IF x.cls = "Object" THEN x.name ELSE "undefined"

\* points2segments() that does not close the loop: no segment from the last
\* point back to the first.
RECURSIVE points2segmentsOpenFrom(_, _)
points2segmentsOpenFrom(points, i) ==
    IF i + 1 >= Len(points) THEN <<>>
    ELSE <<segment(points[i + 1], points[i + 2])>> \o points2segmentsOpenFrom(points, i + 1)

points2segments_open(points) == points2segmentsOpenFrom(points, 0)

\* static points2segments(points)
RECURSIVE points2segmentsFrom(_, _)
points2segmentsFrom(points, i) ==
    IF i >= Len(points) THEN <<>>
    ELSE <<segment(points[i + 1], points[((i + 1) % Len(points)) + 1])>>
            \o points2segmentsFrom(points, i + 1)

points2segments(points) == points2segmentsFrom(points, 0)

\* shapes2face(edges, shapes)
RECURSIVE shapes2faceFrom(_, _, _, _)
shapes2faceFrom(h, f, shapes, i) ==
    IF i > Len(shapes) THEN h
    ELSE LET h1 == newEdge(h, shapes[i])
         IN shapes2faceFrom(append(h1, f, h1.nEdges), f, shapes, i + 1)

shapes2face(h, f, shapes) == shapes2faceFrom(h, f, shapes, 1)

\* shapes.every(shape => shape instanceof Point)
everyPoint(items) == \A i \in 1..Len(items) : items[i].cls = "Point"

\* shapes.every(shape => shape instanceof Segment || shape instanceof Arc)
everyShape(items) == \A i \in 1..Len(items) : items[i].cls \in {"Segment", "Arc"}

\* shapes.every(shape => shape.name === "segment" || shape.name === "arc"): the
\* elements are tested in order until one fails; the test of null or undefined
\* throws a TypeError.
RECURSIVE everyNamed(_, _)
everyNamed(items, i) ==
    IF i > Len(items) THEN "true"
    ELSE IF hasNoProperties(items[i]) THEN "TypeError"
    ELSE IF nameOf(items[i]) \in {"segment", "arc"} THEN everyNamed(items, i + 1)
    ELSE "false"

\* new Segment(shape) or new Arc(shape) for every record of the array
RECURSIVE flattenShapes(_, _)
flattenShapes(items, i) ==
    IF i > Len(items) THEN <<>> ELSE <<items[i].s>> \o flattenShapes(items, i + 1)

\* The loop over the source face that adds nothing to polygon.edges.
addAll_none(h, es, i) == h

RECURSIVE addAll(_, _, _)
addAll(h, es, i) ==
    IF i > Len(es) THEN h ELSE addAll([h EXCEPT !.edges = @ \cup {es[i]}], es, i + 1)

\* The four sides of a box listed the other way round.
boxSegments_reversed(b) ==
    <<segment(point(b.xmin, b.ymin), point(b.xmin, b.ymax)),
      segment(point(b.xmin, b.ymax), point(b.xmax, b.ymax)),
      segment(point(b.xmax, b.ymax), point(b.xmax, b.ymin)),
      segment(point(b.xmax, b.ymin), point(b.xmin, b.ymin))>>

\* The four sides of a box, as the constructor lists them.
boxSegments(b) ==
    <<segment(point(b.xmin, b.ymin), point(b.xmax, b.ymin)),
      segment(point(b.xmax, b.ymin), point(b.xmax, b.ymax)),
      segment(point(b.xmax, b.ymax), point(b.xmin, b.ymax)),
      segment(point(b.xmin, b.ymax), point(b.xmin, b.ymin))>>

\* The branch for one argument that is an array.
constructArray(h, f, shapes) ==
    IF Len(shapes) = 0 THEN [h |-> h, val |-> "returned"]
    ELSE IF everyPoint(shapes)
    THEN [h |-> shapes2face(h, f, points2segments(shapes)), val |-> "returned"]
    ELSE IF everyShape(shapes)
    THEN [h |-> shapes2face(h, f, shapes), val |-> "returned"]
    ELSE IF everyNamed(shapes, 1) = "TypeError"
    THEN [h |-> h, val |-> "TypeError"]
    ELSE IF everyNamed(shapes, 1) = "true"
    THEN [h |-> shapes2face(h, f, flattenShapes(shapes, 1)), val |-> "returned"]
    ELSE [h |-> h, val |-> "returned"]

\* The branch for two Edge arguments: the loop between them is the caller's.
constructEdges(h, f, e1, e2) ==
    LET a == [h EXCEPT !.first[f] = e1]
        b == [a EXCEPT !.last[f] = e2]
        c == [b EXCEPT !.next[b.last[f]] = b.first[f]]
        d == [c EXCEPT !.prev[c.first[f]] = c.last[f]]
    IN [h |-> setArcLength(d, f), val |-> "returned"]

\* new Face(polygon, ...a): the heap after the call, and "returned" or the
\* exception thrown.
construct(h, f, a) ==
    LET h0 == [h EXCEPT !.first[f] = NoEdge, !.last[f] = NoEdge,
                        !._box[f] = undefined, !._orientation[f] = "undefined"]
    IN IF Len(a) = 0 THEN [h |-> h0, val |-> "returned"]
       ELSE IF Len(a) = 1
       THEN IF a[1].cls = "Array" THEN constructArray(h0, f, a[1].items)
            ELSE IF a[1].cls = "Face"
            THEN LET g == a[1].id
                     h1 == [h0 EXCEPT !.first[f] = h0.first[g]]
                     h2 == [h1 EXCEPT !.last[f] = h1.last[g]]
                 IN IF iterEnds(h2, g)
                    THEN [h |-> addAll(h2, faceIter(h2, g), 1), val |-> "returned"]
                    ELSE [h |-> h, val |-> "never returns"]
            ELSE IF a[1].cls = "Circle"
            THEN [h |-> shapes2face(h0, f, <<toArc(a[1], TRUE)>>), val |-> "returned"]
            ELSE IF a[1].cls = "Box"
            THEN [h |-> shapes2face(h0, f, boxSegments(a[1])), val |-> "returned"]
            ELSE [h |-> h0, val |-> "returned"]
       ELSE IF Len(a) = 2 /\ a[1].cls = "Edge" /\ a[2].cls = "Edge"
       THEN constructEdges(h0, f, a[1].id, a[2].id)
       ELSE [h |-> h0, val |-> "returned"]

\* The Edge objects the constructor creates for these arguments.
edgesCreated(a) ==
    IF Len(a) # 1 THEN 0
    ELSE IF a[1].cls = "Array" THEN Len(a[1].items)
    ELSE IF a[1].cls = "Circle" THEN 1
    ELSE IF a[1].cls = "Box" THEN 4
    ELSE 0

\* f = new Face(polygon, ...a).  When the constructor throws there is no face.
\* A face given as the argument shares its edges with the new face: the caller
\* discards it right after the call and calls nothing on it any more.
Construct(f, a) ==
    /\ ~made[f]
    /\ nEdges + edgesCreated(a) <= MaxIds
    /\ LET c == construct(Heap, f, a)
       IN /\ Store(collect(c.h))
          /\ made' = [g \in Faces |->
                        IF g = f THEN c.val = "returned"
                        ELSE IF a = <<faceRef(g)>> THEN FALSE
                        ELSE made[g]]
          /\ ret' = [op |-> "new", f |-> f, val |-> c.val]
    /\ args' = a
    /\ hist' = NoHist

---------------------------------------------------------------------------
(* The life of one face: Spec *)

\* The edges of the loop of f, as a set.
Members(h, f) == LET es == faceIter(h, f) IN {es[i] : i \in 1..Len(es)} \ {NoEdge}

\* The shapes along the loop of f.
RECURSIVE shapesOf(_, _, _)
shapesOf(h, es, i) == IF i > Len(es) THEN <<>> ELSE <<h.shape[es[i]]>> \o shapesOf(h, es, i + 1)

Shapes(h, f) == shapesOf(h, faceIter(h, f), 1)

\* arc_length(e0) = 0 and arc_length(e_i) = arc_length(e_{i-1}) + length(e_{i-1}).
ArcLengthLaw(h, f) ==
    LET es == faceIter(h, f)
    IN \A i \in 1..Len(es) :
          h.arc_length[es[i]] =
             IF i = 1 THEN 0 ELSE h.arc_length[es[i - 1]] + length(h.shape[es[i - 1]])

\* The shapes a caller gives to the edges it creates: edge k runs from vertex k-1
\* to vertex k of a polyline (0,0), (2,0), (1,1), (0,1), (2,2), ... whose pieces
\* connect tail to head and differ in length, box and integral.
Vertex(k) == point((2 * k) % 3, k \div 2)

EdgeShape(k) == segment(Vertex(k - 1), Vertex(k))

Snapshot(h, f) ==
    [revs |-> 1, first |-> h.first[f], last |-> h.last[f],
     order |-> faceIter(h, f), shapes |-> Shapes(h, f)]

\* new Face(polygon) for every face; no Edge exists yet.
InitHeap ==
    /\ first = [f \in Faces |-> NoEdge]
    /\ last = [f \in Faces |-> NoEdge]
    /\ _box = [f \in Faces |-> undefined]
    /\ _orientation = [f \in Faces |-> "undefined"]
    /\ next = [e \in EdgeIds |-> NoEdge]
    /\ prev = [e \in EdgeIds |-> NoEdge]
    /\ shape = [e \in EdgeIds |-> undefined]
    /\ face = [e \in EdgeIds |-> "undefined"]
    /\ arc_length = [e \in EdgeIds |-> 0]
    /\ edges = {}
    /\ nEdges = 0

Init ==
    /\ InitHeap
    /\ made = [f \in Faces |-> f = "F"]
    /\ args = <<>>
    /\ ret = [op |-> "new", f |-> "F", val |-> "returned"]
    /\ hist = NoHist

\* face.append(polygon.edges, new Edge(s))
FaceAppend(f) ==
    \E s \in {EdgeShape(nEdges + 1)} :
       /\ made[f]
       /\ nEdges < MaxEdges
       /\ LET h1 == newEdge(Heap, s)
          IN Store(collect(append(h1, f, h1.nEdges)))
       /\ ret' = [op |-> "append", f |-> f, val |-> TRUE]
       /\ hist' = NoHist
       /\ UNCHANGED <<made, args>>

\* face.insert(polygon.edges, new Edge(s), edgeBefore), edgeBefore an edge of the face
FaceInsert(f) ==
    \E s \in {EdgeShape(nEdges + 1)} :
       \E edgeBefore \in (IF first[f] = NoEdge THEN {NoEdge} ELSE Members(Heap, f)) :
          /\ made[f]
          /\ nEdges < MaxEdges
          /\ LET h1 == newEdge(Heap, s)
             IN Store(collect(insert(h1, f, h1.nEdges, edgeBefore)))
          /\ ret' = [op |-> "insert", f |-> f, val |-> edgeBefore]
          /\ hist' = NoHist
          /\ UNCHANGED <<made, args>>

\* face.remove(polygon.edges, edge), edge an edge of the face
FaceRemove(f) ==
    \E edge \in Members(Heap, f) :
       /\ made[f]
       /\ Store(collect(remove(Heap, f, edge)))
       /\ ret' = [op |-> "remove", f |-> f, val |-> size(Heap, f)]
       /\ hist' = NoHist
       /\ UNCHANGED <<made, args>>

\* face.reverse()
FaceReverse(f) ==
    /\ made[f]
    /\ \/ /\ reverseThrows(Heap, f)
          /\ ret' = [op |-> "reverse", f |-> f, val |-> "TypeError"]
          /\ hist' = NoHist
          /\ UNCHANGED <<first, last, _box, _orientation, next, prev, shape, face,
                         arc_length, edges, nEdges>>
       \/ /\ reverseEnds(Heap, f)
          /\ Store(reverse(Heap, f))
          /\ ret' = [op |-> "reverse", f |-> f, val |-> "returned"]
          /\ hist' = IF hist.revs = 1 THEN [hist EXCEPT !.revs = 2] ELSE Snapshot(Heap, f)
    /\ UNCHANGED <<made, args>>

\* face.setArcLength(); ret records whether the arc-length law held before the call.
FaceSetArcLength(f) ==
    /\ made[f]
    /\ iterEnds(Heap, f)
    /\ Store(setArcLength(Heap, f))
    /\ ret' = [op |-> "setArcLength", f |-> f, val |-> ArcLengthLaw(Heap, f)]
    /\ hist' = NoHist
    /\ UNCHANGED <<made, args>>

\* face.box
FaceBox(f) ==
    /\ made[f]
    /\ iterEnds(Heap, f)
    /\ Store(box(Heap, f))
    /\ ret' = [op |-> "box", f |-> f, val |-> box(Heap, f)._box[f]]
    /\ hist' = NoHist
    /\ UNCHANGED <<made, args>>

\* face.orientation()
FaceOrientation(f) ==
    /\ made[f]
    /\ iterEnds(Heap, f)
    /\ Store(orientation(Heap, f))
    /\ ret' = [op |-> "orientation", f |-> f, val |-> orientation(Heap, f)._orientation[f]]
    /\ hist' = NoHist
    /\ UNCHANGED <<made, args>>

Next ==
    \/ FaceAppend("F")
    \/ FaceInsert("F")
    \/ FaceRemove("F")
    \/ FaceReverse("F")
    \/ FaceSetArcLength("F")
    \/ FaceBox("F")
    \/ FaceOrientation("F")

Spec == Init /\ [][Next]_vars

---------------------------------------------------------------------------
(* Claims checked under Spec *)

\* The edge reached from e by following next k times.
RECURSIVE nextTimes(_, _, _)
nextTimes(h, e, k) == IF k = 0 \/ e = NoEdge THEN e ELSE nextTimes(h, h.next[e], k - 1)

\* The box the loop of f has now.
LoopBox(h, f) == mergeBoxes(h, faceIter(h, f), 1, EmptyBox)

\* C1: a face that is not empty after any sequence of append/insert/remove is a
\* circle: size() is defined, following next from first size() times comes back
\* to first and meets no edge twice on the way, first.prev is last and last.next
\* is first.
C1_Circular ==
    first["F"] # NoEdge =>
       LET n == size(Heap, "F")
       IN /\ n >= 1
          /\ nextTimes(Heap, first["F"], n) = first["F"]
          /\ \A i, j \in 0..(n - 1) :
                i # j => nextTimes(Heap, first["F"], i) # nextTimes(Heap, first["F"], j)
          /\ prev[first["F"]] = last["F"]
          /\ next[last["F"]] = first["F"]

\* C1 witness: a loop of two edges left by a remove, whose first edge was put
\* before the older one by an insert after last.
C1_Witness ==
    /\ ret.op = "remove"
    /\ size(Heap, "F") = 2
    /\ first["F"] > last["F"]

\* C2: right after setArcLength() on a face that is not empty, the first edge has
\* arc length 0, every other edge has its predecessor's arc length plus its
\* predecessor's length, and every edge of the loop refers back to the face.
C2_ArcLengthLaw ==
    (ret.op = "setArcLength" /\ first["F"] # NoEdge) =>
       /\ ArcLengthLaw(Heap, "F")
       /\ \A e \in Members(Heap, "F") : face[e] = "F"

\* C2 witness: setArcLength() has just run on a loop of three edges or more whose
\* arc lengths broke the law before the call.
C2_Witness ==
    /\ ret.op = "setArcLength"
    /\ ret.val = FALSE
    /\ size(Heap, "F") >= 3
    /\ ArcLengthLaw(Heap, "F")

\* C3: after two reverse() calls in a row the face has the first and last edges,
\* the order of edges and the shapes it had before the two calls.
C3_ReverseTwice ==
    hist.revs = 2 =>
       /\ first["F"] = hist.first
       /\ last["F"] = hist.last
       /\ faceIter(Heap, "F") = hist.order
       /\ Shapes(Heap, "F") = hist.shapes

\* C3 witness: two reverse() calls in a row on a loop of three edges or more.
C3_Witness ==
    /\ hist.revs = 2
    /\ ret.op = "reverse"
    /\ size(Heap, "F") >= 3

\* C10: once the box cache is set no step changes it, and the step that sets it
\* stores the union of the boxes of the edges of the loop as it is at that step;
\* a read of box returns the cache.
C10_Step ==
    /\ _box["F"] # undefined => _box'["F"] = _box["F"]
    /\ (_box["F"] = undefined /\ _box'["F"] # undefined) => _box'["F"] = LoopBox(Heap, "F")
    /\ ret'.op = "box" => ret'.val = _box'["F"]

C10_BoxCache == [][C10_Step]_vars

\* C10 witness: a read of box has just returned a cached box that is not the box
\* of the loop any more.
C10_Witness ==
    /\ ret.op = "box"
    /\ _box["F"] # undefined
    /\ ret.val = _box["F"]
    /\ _box["F"] # LoopBox(Heap, "F")

\* A step in which reverse() has run and returned.
ReverseStep == ret'.op = "reverse" /\ ret'.val = "returned"

\* C12: reverse() turns a cached CW into CCW and a cached CCW into CW, leaves a
\* cached NOT_ORIENTABLE as it is, leaves the orientation cache unset when it was
\* unset, and leaves the box cache unchanged.
C12_Step ==
    ReverseStep =>
       /\ _orientation["F"] = "undefined" => _orientation'["F"] = "undefined"
       /\ _orientation["F"] = "CW" => _orientation'["F"] = "CCW"
       /\ _orientation["F"] = "CCW" => _orientation'["F"] = "CW"
       /\ _orientation["F"] = "NOT_ORIENTABLE" => _orientation'["F"] = "NOT_ORIENTABLE"
       /\ _box' = _box

C12_ReverseFlipsOrientation == [][C12_Step]_vars

\* C13: insert(edges, newEdge, edgeBefore) on a face that is not empty puts
\* newEdge right after edgeBefore: edgeBefore.next is newEdge, newEdge.prev is
\* edgeBefore, newEdge.next is the edge that followed edgeBefore; last does not
\* change; first becomes newEdge when edgeBefore was last and does not change
\* otherwise.  On an empty face newEdge is first and last and its own neighbour.
C13_Step ==
    ret'.op = "insert" =>
       LET new == nEdges'
           edgeBefore == ret'.val
       IN /\ new = nEdges + 1
          /\ IF first["F"] = NoEdge
             THEN /\ first'["F"] = new /\ last'["F"] = new
                  /\ next'[new] = new /\ prev'[new] = new
             ELSE /\ edgeBefore \in Members(Heap, "F")
                  /\ next'[edgeBefore] = new
                  /\ prev'[new] = edgeBefore
                  /\ next'[new] = next[edgeBefore]
                  /\ prev'[next[edgeBefore]] = new
                  /\ last'["F"] = last["F"]
                  /\ first'["F"] = IF edgeBefore = last["F"] THEN new ELSE first["F"]

C13_InsertPlacement == [][C13_Step]_vars

\* C13 witness: an edge has been inserted after the last of two edges or more
\* and is the first edge now.
C13_Witness ==
    /\ ret.op = "insert"
    /\ ret.val = last["F"]
    /\ first["F"] = nEdges
    /\ size(Heap, "F") >= 3

\* C14: insert writes the arc length of the new edge only: 0 when the new edge
\* becomes first, else the arc length of its predecessor plus the length of its
\* predecessor; the arc length of every other edge is as before.  remove leaves
\* the arc length of every edge that remains as before.
C14_Step ==
    /\ ret'.op = "insert" =>
          LET new == nEdges'
          IN /\ \A e \in Members(Heap, "F") : arc_length'[e] = arc_length[e]
             /\ arc_length'[new] =
                   IF first'["F"] = new THEN 0
                   ELSE arc_length[prev'[new]] + length(shape[prev'[new]])
    /\ ret'.op = "remove" =>
          \A e \in Members(Heap', "F") : arc_length'[e] = arc_length[e]

C14_ArcLengthFrame == [][C14_Step]_vars

\* C14 witness: after a remove that left two edges or more, the arc lengths do
\* not follow the law: the first edge does not have arc length 0.
C14_Witness ==
    /\ ret.op = "remove"
    /\ size(Heap, "F") >= 2
    /\ arc_length[first["F"]] # 0
    /\ ~ArcLengthLaw(Heap, "F")

---------------------------------------------------------------------------
(* What the constructor makes of its arguments: SpecInput *)

\* All sequences over S of length 0..n.
SeqsUpTo(S, n) == UNION {[1..k -> S] : k \in 0..n}

GridPoints == {point(x, y) : x, y \in 0..GridMax}

\* Arrays of points.
PointArrays == {array(s) : s \in SeqsUpTo(GridPoints, MaxPts)}

aSegment == segment(point(0, 0), point(1, 0))

anArc == arc(point(0, 0), 1, 0, 1, TRUE)

\* One element of each kind an array can hold.
Elements ==
    {point(0, 0), aSegment, anArc, record("segment", aSegment), record("arc", anArc),
     record("circle", circle(point(0, 0), 1)), null, number}

\* Arrays of elements of any kinds, the arrays of one kind among them.
MixedArrays == {array(s) : s \in SeqsUpTo(Elements, MaxItems)}

\* Argument lists that are not one array.
OtherArgs ==
    {<<>>, <<null>>, <<number>>, <<point(0, 0)>>, <<aSegment>>,
     <<circle(point(1, 1), 1)>>, <<Box(0, 0, 2, 1)>>,
     <<point(0, 0), point(1, 0)>>, <<array(<<point(0, 0)>>), number>>, <<null, null>>,
     <<point(0, 0), point(1, 0), point(1, 1)>>}

InputArgs == {<<x>> : x \in PointArrays \cup MixedArrays} \cup OtherArgs

InitInput ==
    /\ InitHeap
    /\ made = [f \in Faces |-> FALSE]
    /\ args = <<>>
    /\ ret = [op |-> "none", f |-> "F", val |-> TRUE]
    /\ hist = NoHist

\* One constructor call in each behaviour.
NextInput == ret.op = "none" /\ \E a \in InputArgs : Construct("F", a)

SpecInput == InitInput /\ [][NextInput]_vars

\* Every element is a plain object named "segment" or "arc".
AllNamedRecords(items) ==
    \A i \in 1..Len(items) : items[i].cls = "Object" /\ items[i].name \in {"segment", "arc"}

\* Arguments no branch of the constructor accepts.
Unrecognized(a) ==
    \/ /\ Len(a) = 1
       /\ a[1].cls = "Array"
       /\ Len(a[1].items) > 0
       /\ ~everyPoint(a[1].items)
       /\ ~everyShape(a[1].items)
       /\ ~AllNamedRecords(a[1].items)
    \/ Len(a) = 1 /\ a[1].cls \notin {"Array", "Face", "Circle", "Box"}
    \/ Len(a) = 2 /\ ~(a[1].cls = "Edge" /\ a[2].cls = "Edge")
    \/ Len(a) > 2

\* C8: construction from arguments no branch accepts returns, leaves the face
\* empty and adds nothing to polygon.edges.
C8_UnrecognizedGivesEmpty ==
    (ret.op = "new" /\ Unrecognized(args)) =>
       /\ ret.val = "returned"
       /\ made["F"]
       /\ isEmpty(Heap, "F")
       /\ edges = {}
       /\ nEdges = 0

\* C9: construction from an array of n points creates edges 1..n, all in
\* polygon.edges, linked in this order; edge i is the segment from point i to
\* point (i + 1) mod n, so each edge ends where the next one starts; n = 0 gives
\* the empty face.
C9_PointsToLoop ==
    (ret.op = "new" /\ Len(args) = 1 /\ args[1].cls = "Array" /\ everyPoint(args[1].items)) =>
       LET pts == args[1].items
           n == Len(pts)
           es == faceIter(Heap, "F")
       IN /\ ret.val = "returned"
          /\ made["F"]
          /\ nEdges = n
          /\ edges = 1..n
          /\ size(Heap, "F") = n
          /\ es = [i \in 1..n |-> i]
          /\ \A i \in 1..n :
                /\ shape[i] = segment(pts[i], pts[(i % n) + 1])
                /\ end(shape[es[i]]) = start(shape[es[(i % n) + 1]])
          /\ n = 0 => isEmpty(Heap, "F")

\* C9 witness: a face built from three different points.
C9_Witness ==
    /\ ret.op = "new"
    /\ Len(args) = 1
    /\ args[1].cls = "Array"
    /\ everyPoint(args[1].items)
    /\ Len(args[1].items) = 3
    /\ Cardinality({args[1].items[i] : i \in 1..3}) = 3
    /\ size(Heap, "F") = 3

---------------------------------------------------------------------------
(* Self-intersections *)

\* box.intersect(other) = !box.not_intersect(other)
boxIntersect(a, b) ==
    ~(a.xmax < b.xmin \/ a.xmin > b.xmax \/ a.ymax < b.ymin \/ a.ymin > b.ymax)

\* edges.search(box): the edges of the index whose box meets the box.  The index
\* lists them in an order of its own; here they come by number.
RECURSIVE search(_, _, _)
search(h, b, i) ==
    IF i > h.nEdges THEN <<>>
    ELSE (IF i \in h.edges /\ boxIntersect(shapeBox(h.shape[i]), b) THEN <<i>> ELSE <<>>)
            \o search(h, b, i + 1)

RECURSIVE GCD(_, _)
GCD(a, b) == IF b = 0 THEN a ELSE GCD(b, a % b)

\* The point (xn/d, yn/d), d > 0, xn >= 0, yn >= 0: a point of the grid when both
\* divisions are exact, else the fractions in lowest terms.
pointQ(xn, yn, d) ==
    LET g == GCD(GCD(xn, yn), d)
    IN IF g = d THEN point(xn \div d, yn \div d)
       ELSE [cls |-> "Point", xn |-> xn \div g, yn |-> yn \div g, d |-> d \div g]

\* point.equalTo(other): the coordinates of the model are exact, and two different
\* points are further apart than the tolerance.
equalTo(p, q) == p = q

\* (b - a) x (c - a)
cross(a, b, c) == (b.x - a.x) * (c.y - a.y) - (b.y - a.y) * (c.x - a.x)

\* point.on(segment), for a point of the grid
on(p, s) ==
    /\ cross(s.ps, s.pe, p) = 0
    /\ Min(s.ps.x, s.pe.x) <= p.x /\ p.x <= Max(s.ps.x, s.pe.x)
    /\ Min(s.ps.y, s.pe.y) <= p.y /\ p.y <= Max(s.ps.y, s.pe.y)

\* segment.intersect(segment): nothing when the boxes are apart; on one line, the
\* ends of each segment that lie on the other; else the point where the two lines
\* meet, when it is on both segments.
intersectSegment2Segment(seg1, seg2) ==
    IF ~boxIntersect(shapeBox(seg1), shapeBox(seg2)) THEN <<>>
    ELSE LET dx1 == seg1.pe.x - seg1.ps.x
             dy1 == seg1.pe.y - seg1.ps.y
             dx2 == seg2.pe.x - seg2.ps.x
             dy2 == seg2.pe.y - seg2.ps.y
             wx == seg2.ps.x - seg1.ps.x
             wy == seg2.ps.y - seg1.ps.y
             den == dx1 * dy2 - dy1 * dx2
             s == IF den < 0 THEN -1 ELSE 1
             d == s * den
             tn == s * (wx * dy2 - wy * dx2)
             un == s * (wx * dy1 - wy * dx1)
         IN IF den = 0
            THEN IF cross(seg1.ps, seg1.pe, seg2.ps) = 0
                 THEN (IF on(seg1.ps, seg2) THEN <<seg1.ps>> ELSE <<>>)
                      \o (IF on(seg1.pe, seg2) THEN <<seg1.pe>> ELSE <<>>)
                      \o (IF on(seg2.ps, seg1) /\ ~equalTo(seg2.ps, seg1.ps) /\ ~equalTo(seg2.ps, seg1.pe)
                          THEN <<seg2.ps>> ELSE <<>>)
                      \o (IF on(seg2.pe, seg1) /\ ~equalTo(seg2.pe, seg1.ps) /\ ~equalTo(seg2.pe, seg1.pe)
                          THEN <<seg2.pe>> ELSE <<>>)
                 ELSE <<>>
            ELSE IF 0 <= tn /\ tn <= d /\ 0 <= un /\ un <= d
                 THEN <<pointQ(seg1.ps.x * d + tn * dx1, seg1.ps.y * d + tn * dy1, d)>>
                 ELSE <<>>

\* A point (x/d, y/d) as the triple of x, y and d.
Fraction(pt) ==
    IF "d" \in DOMAIN pt THEN <<pt.xn, pt.yn, pt.d>> ELSE <<pt.x, pt.y, 1>>

\* point.on(arc), for a point of the arc's circle: the angle of the point, an
\* axis direction or the inside of a quarter, lies within the sweep of the arc.
onArc(pt, a) ==
    LET q == Fraction(pt)
        ux == q[1] - a.pc.x * q[3]
        uy == q[2] - a.pc.y * q[3]
        k == sweep(a)
        lo == IF a.counterClockwise THEN a.startAngle ELSE a.startAngle - k
        axis == ux = 0 \/ uy = 0
        dir == IF axis
               THEN (IF uy = 0 THEN (IF ux > 0 THEN 0 ELSE 2) ELSE (IF uy > 0 THEN 1 ELSE 3))
               ELSE (IF uy > 0 THEN (IF ux > 0 THEN 0 ELSE 1) ELSE (IF ux < 0 THEN 2 ELSE 3))
    IN IF axis THEN (dir - lo) % 4 <= k ELSE (dir - lo) % 4 < k

\* segment.intersect(arc): nothing when the boxes are apart; else the points
\* where the line of the segment meets the circle of the arc that are on the
\* segment and on the arc.  The shapes of the model meet at points with rational
\* coordinates.
intersectSegment2Arc(seg, a) ==
    IF ~boxIntersect(shapeBox(seg), shapeBox(a)) THEN <<>>
    ELSE LET dx == seg.pe.x - seg.ps.x
             dy == seg.pe.y - seg.ps.y
             wx == seg.ps.x - a.pc.x
             wy == seg.ps.y - a.pc.y
             qa == dx * dx + dy * dy
             qb == 2 * (wx * dx + wy * dy)
             qc == wx * wx + wy * wy - a.r * a.r
             disc == qb * qb - 4 * qa * qc
             den == 2 * qa
             at(tn) ==
                IF 0 <= tn /\ tn <= den
                THEN LET pt == pointQ(seg.ps.x * den + tn * dx, seg.ps.y * den + tn * dy, den)
                     IN IF onArc(pt, a) THEN <<pt>> ELSE <<>>
                ELSE <<>>
         IN CASE disc < 0 -> <<>>
              [] disc = 0 -> at(-qb)
              [] disc > 0 /\ ISqrt(disc) * ISqrt(disc) = disc ->
                    at(-qb - ISqrt(disc)) \o at(-qb + ISqrt(disc))

\* arc.intersect(arc) for two arcs of one circle: the ends of each arc that are
\* on the other.  Arcs of different circles do not occur in the model.
intersectArc2Arc(arc1, arc2) ==
    IF ~boxIntersect(shapeBox(arc1), shapeBox(arc2)) THEN <<>>
    ELSE CASE arc1.pc = arc2.pc /\ arc1.r = arc2.r ->
            (IF onArc(start(arc1), arc2) THEN <<start(arc1)>> ELSE <<>>)
            \o (IF onArc(end(arc1), arc2) THEN <<end(arc1)>> ELSE <<>>)
            \o (IF onArc(start(arc2), arc1) THEN <<start(arc2)>> ELSE <<>>)
            \o (IF onArc(end(arc2), arc1) THEN <<end(arc2)>> ELSE <<>>)

\* shape.intersect(shape)
intersect(shape1, shape2) ==
    CASE shape1.cls = "Segment" /\ shape2.cls = "Segment" -> intersectSegment2Segment(shape1, shape2)
      [] shape1.cls = "Segment" /\ shape2.cls = "Arc" -> intersectSegment2Arc(shape1, shape2)
      [] shape1.cls = "Arc" /\ shape2.cls = "Segment" -> intersectSegment2Arc(shape2, shape1)
      [] shape1.cls = "Arc" /\ shape2.cls = "Arc" -> intersectArc2Arc(shape1, shape2)

\* "for (let pt of ip)" that goes on after the first point when exitOnFirst.
RECURSIVE forPoints_noBreak(_, _, _, _, _, _, _)
forPoints_noBreak(h, edge1, edge2, ip, i, int_points, exitOnFirst) ==
    IF i > Len(ip) THEN int_points
    ELSE LET pt == ip[i]
         IN IF equalTo(pt, start(h.shape[edge1])) /\ equalTo(pt, end(h.shape[edge2]))
                /\ edge2 = h.prev[edge1]
            THEN forPoints_noBreak(h, edge1, edge2, ip, i + 1, int_points, exitOnFirst)
            ELSE IF equalTo(pt, end(h.shape[edge1])) /\ equalTo(pt, start(h.shape[edge2]))
                    /\ edge2 = h.next[edge1]
            THEN forPoints_noBreak(h, edge1, edge2, ip, i + 1, int_points, exitOnFirst)
            ELSE forPoints_noBreak(h, edge1, edge2, ip, i + 1, Append(int_points, pt), exitOnFirst)

\* "for (let pt of ip)" that knows the connection with the previous edge only.
RECURSIVE forPoints_prevOnly(_, _, _, _, _, _, _)
forPoints_prevOnly(h, edge1, edge2, ip, i, int_points, exitOnFirst) ==
    IF i > Len(ip) THEN int_points
    ELSE LET pt == ip[i]
         IN IF equalTo(pt, start(h.shape[edge1])) /\ equalTo(pt, end(h.shape[edge2]))
                /\ edge2 = h.prev[edge1]
            THEN forPoints_prevOnly(h, edge1, edge2, ip, i + 1, int_points, exitOnFirst)
            ELSE IF exitOnFirst THEN Append(int_points, pt)
            ELSE forPoints_prevOnly(h, edge1, edge2, ip, i + 1, Append(int_points, pt), exitOnFirst)

\* "for (let pt of ip)": the points that are not start-end connections, up to
\* the first one when exitOnFirst.
RECURSIVE forPoints(_, _, _, _, _, _, _)
forPoints(h, edge1, edge2, ip, i, int_points, exitOnFirst) ==
    IF i > Len(ip) THEN int_points
    ELSE LET pt == ip[i]
         IN IF equalTo(pt, start(h.shape[edge1])) /\ equalTo(pt, end(h.shape[edge2]))
                /\ edge2 = h.prev[edge1]
            THEN forPoints(h, edge1, edge2, ip, i + 1, int_points, exitOnFirst)
            ELSE IF equalTo(pt, end(h.shape[edge1])) /\ equalTo(pt, start(h.shape[edge2]))
                    /\ edge2 = h.next[edge1]
            THEN forPoints(h, edge1, edge2, ip, i + 1, int_points, exitOnFirst)
            ELSE IF exitOnFirst THEN Append(int_points, pt)
            ELSE forPoints(h, edge1, edge2, ip, i + 1, Append(int_points, pt), exitOnFirst)

\* The loop over the response with every pair of segments skipped.
skipped_segments(h, edge1, edge2) ==
    IF edge1 = edge2 THEN TRUE
    ELSE h.shape[edge1].cls = "Segment" /\ h.shape[edge2].cls = "Segment"

\* The two "continue" of the loop over the response: the edge itself, and the
\* next and the previous edge when both shapes are segments.
skipped(h, edge1, edge2) ==
    IF edge1 = edge2 THEN TRUE
    ELSE /\ h.shape[edge1].cls = "Segment"
         /\ h.shape[edge2].cls = "Segment"
         /\ (h.next[edge1] = edge2 \/ h.prev[edge1] = edge2)

\* "for (let edge2 of resp)"
RECURSIVE forResp(_, _, _, _, _, _)
forResp(h, edge1, resp, j, int_points, exitOnFirst) ==
    IF j > Len(resp) THEN int_points
    ELSE LET edge2 == resp[j]
         IN IF skipped(h, edge1, edge2)
            THEN forResp(h, edge1, resp, j + 1, int_points, exitOnFirst)
            ELSE LET ip == intersect(h.shape[edge1], h.shape[edge2])
                     found == forPoints(h, edge1, edge2, ip, 1, int_points, exitOnFirst)
                 IN IF Len(found) > 0 /\ exitOnFirst THEN found
                    ELSE forResp(h, edge1, resp, j + 1, found, exitOnFirst)

\* "for (let edge1 of face)"
RECURSIVE forFace(_, _, _, _, _)
forFace(h, es, i, int_points, exitOnFirst) ==
    IF i > Len(es) THEN int_points
    ELSE LET edge1 == es[i]
             resp == search(h, shapeBox(h.shape[edge1]), 1)
             found == forResp(h, edge1, resp, 1, int_points, exitOnFirst)
         IN IF Len(found) > 0 /\ exitOnFirst THEN found
            ELSE forFace(h, es, i + 1, found, exitOnFirst)

\* static getSelfIntersections(face, edges, exitOnFirst)
getSelfIntersections(h, f, exitOnFirst) == forFace(h, faceIter(h, f), 1, <<>>, exitOnFirst)

\* isSimple(edges)
isSimple(h, f) == Len(getSelfIntersections(h, f, TRUE)) = 0

---------------------------------------------------------------------------
(* Faces of segments and what is computed from them: SpecGeom *)

\* Loops through three or four different points of the grid.
PointLoops ==
    {array(<<a, b, c>>) : a, b, c \in GridPoints} \cup
    {array(<<a, b, c, d>>) : a, b, c, d \in GridPoints}

Distinct(items) == Cardinality({items[i] : i \in 1..Len(items)}) = Len(items)

\* Boxes with xmin < xmax and ymin < ymax on the grid.
GridBoxes ==
    {Box(x1, y1, x2, y2) : x1, y1, x2, y2 \in 0..GridMax}

StrictBox(b) == b.xmin < b.xmax /\ b.ymin < b.ymax

GeomArgs ==
    {<<a>> : a \in {l \in PointLoops : Distinct(l.items)}} \cup
    {<<b>> : b \in {x \in GridBoxes : StrictBox(x)}}

\* face.signedArea()
FaceSignedArea(f) ==
    /\ made[f]
    /\ iterEnds(Heap, f)
    /\ Store(signedAreaHeap(Heap, f))
    /\ ret' = [op |-> "signedArea", f |-> f, val |-> signedArea(Heap, f)]
    /\ hist' = NoHist
    /\ UNCHANGED <<made, args>>

\* face.area()
FaceArea(f) ==
    /\ made[f]
    /\ iterEnds(Heap, f)
    /\ Store(signedAreaHeap(Heap, f))
    /\ ret' = [op |-> "area", f |-> f, val |-> area(Heap, f)]
    /\ hist' = NoHist
    /\ UNCHANGED <<made, args>>

\* face.isSimple(polygon.edges)
FaceIsSimple(f) ==
    /\ made[f]
    /\ iterEnds(Heap, f)
    /\ ret' = [op |-> "isSimple", f |-> f, val |-> isSimple(Heap, f)]
    /\ hist' = NoHist
    /\ UNCHANGED <<first, last, _box, _orientation, next, prev, shape, face,
                   arc_length, edges, nEdges, made, args>>

\* Face.getSelfIntersections(face, polygon.edges, false)
FaceGetSelfIntersections(f) ==
    /\ made[f]
    /\ iterEnds(Heap, f)
    /\ ret' = [op |-> "getSelfIntersections", f |-> f,
               val |-> getSelfIntersections(Heap, f, FALSE)]
    /\ hist' = NoHist
    /\ UNCHANGED <<first, last, _box, _orientation, next, prev, shape, face,
                   arc_length, edges, nEdges, made, args>>

InitGeom ==
    /\ InitHeap
    /\ made = [f \in Faces |-> FALSE]
    /\ args = <<>>
    /\ ret = [op |-> "none", f |-> "F", val |-> TRUE]
    /\ hist = NoHist

NextGeom ==
    \/ ret.op = "none" /\ \E a \in GeomArgs : Construct("F", a)
    \/ FaceBox("F")
    \/ FaceSignedArea("F")
    \/ FaceArea("F")
    \/ FaceOrientation("F")
    \/ FaceIsSimple("F")
    \/ FaceGetSelfIntersections("F")

SpecGeom == InitGeom /\ [][NextGeom]_vars

---------------------------------------------------------------------------
(* Claims checked under SpecGeom *)

\* The face was constructed from the box b.
FromBox(b) == made["F"] /\ args = <<b>>

\* The face was constructed from the array of points pts.
FromPoints(pts) == made["F"] /\ args = <<array(pts)>>

\* The four sides of the box b, from (xmin, ymin) along the bottom side first.
BoxLoop(b) ==
    /\ nEdges = Len(boxSegments(b))
    /\ faceIter(Heap, "F") = [i \in 1..nEdges |-> i]
    /\ shape[1] = segment(point(b.xmin, b.ymin), point(b.xmax, b.ymin))
    /\ shape[2] = segment(point(b.xmax, b.ymin), point(b.xmax, b.ymax))
    /\ shape[3] = segment(point(b.xmax, b.ymax), point(b.xmin, b.ymax))
    /\ shape[4] = segment(point(b.xmin, b.ymax), point(b.xmin, b.ymin))
    /\ Cardinality(Members(Heap, "F")) = 4

\* width * height of a box, in the unit of signedArea (1/2)
TwiceBoxArea(b) == 2 * (b.xmax - b.xmin) * (b.ymax - b.ymin)

\* C4, as stated: the face of a box has the four sides (xmin,ymin) -> (xmax,ymin)
\* -> (xmax,ymax) -> (xmin,ymax) -> close, orientation() returns CW and
\* signedArea() is positive.
C4_BoxIsClockwise ==
    \A b \in GridBoxes :
       (StrictBox(b) /\ FromBox(b)) =>
          /\ BoxLoop(b)
          /\ ret.op = "orientation" => ret.val = "CW"
          /\ ret.op = "signedArea" => Sign(ret.val) > 0

\* C4, amended: the face of a box has the four sides (xmin,ymin) -> (xmax,ymin)
\* -> (xmax,ymax) -> (xmin,ymax) -> close; this loop is counter-clockwise:
\* orientation() returns CCW and signedArea() is -(width * height).
C4_BoxIsCounterClockwise ==
    \A b \in GridBoxes :
       (StrictBox(b) /\ FromBox(b)) =>
          /\ BoxLoop(b)
          /\ ret.op = "orientation" => ret.val = "CCW"
          /\ ret.op = "signedArea" => ret.val = Num(-TwiceBoxArea(b))

\* orientation() has been called on the face of a box.
C4_Witness ==
    \E b \in GridBoxes :
       /\ StrictBox(b) /\ FromBox(b)
       /\ ret.op = "orientation"
       /\ _orientation["F"] = "CCW"

\* The sequence s turned by k places.
Rotate(s, k) == [i \in 1..Len(s) |-> s[((i + k - 1) % Len(s)) + 1]]

Rotations(s) == {Rotate(s, k) : k \in 1..Len(s)}

\* Sequence.reverse
Backwards(s) == [i \in 1..Len(s) |-> s[Len(s) + 1 - i]]

\* The corners of the box b, counter-clockwise from (xmin, ymin).
Corners(b) ==
    <<point(b.xmin, b.ymin), point(b.xmax, b.ymin), point(b.xmax, b.ymax), point(b.xmin, b.ymax)>>

\* C5: for a face built from the corners of a rectangle listed counter-clockwise
\* (from any corner), signedArea() is -(width * height), area() is width * height
\* and orientation() returns CCW; for the corners listed the other way round,
\* signedArea() is width * height, area() the same and orientation() returns CW.
\* The integral of each edge is (end.x - start.x) * ((start.y - ymin) + (end.y - ymin)) / 2.
C5_OrientationAreaLaw ==
    \A b \in GridBoxes :
       StrictBox(b) =>
          /\ \A pts \in Rotations(Corners(b)) :
                FromPoints(pts) =>
                   /\ ret.op = "signedArea" => (ret.val = Num(-TwiceBoxArea(b)) /\ Sign(ret.val) < 0)
                   /\ ret.op = "area" => ret.val = Num(TwiceBoxArea(b))
                   /\ ret.op = "orientation" => ret.val = "CCW"
          /\ \A pts \in Rotations(Backwards(Corners(b))) :
                FromPoints(pts) =>
                   /\ ret.op = "signedArea" => (ret.val = Num(TwiceBoxArea(b)) /\ Sign(ret.val) > 0)
                   /\ ret.op = "area" => ret.val = Num(TwiceBoxArea(b))
                   /\ ret.op = "orientation" => ret.val = "CW"
          /\ \A pts \in Rotations(Corners(b)) \cup Rotations(Backwards(Corners(b))) :
                (FromPoints(pts) /\ _box["F"] # undefined) =>
                   \A e \in Members(Heap, "F") :
                      definiteIntegral(shape[e], ymin(_box["F"])) =
                         Num((end(shape[e]).x - start(shape[e]).x)
                             * ((start(shape[e]).y - b.ymin) + (end(shape[e]).y - b.ymin)))

\* area() has been called on the unit square listed clockwise from (1, 1).
C5_Witness ==
    /\ FromPoints(<<point(1, 1), point(1, 0), point(0, 0), point(0, 1)>>)
    /\ ret.op = "area"
    /\ ret.val = Num(2)
    /\ _box["F"] = Box(0, 0, 1, 1)

\* The segments s1 and s2 cross at a point interior to both: the ends of each lie
\* strictly on different sides of the other.
ProperCross(s1, s2) ==
    /\ cross(s1.ps, s1.pe, s2.ps) * cross(s1.ps, s1.pe, s2.pe) < 0
    /\ cross(s2.ps, s2.pe, s1.ps) * cross(s2.ps, s2.pe, s1.pe) < 0

\* The point pt is on the line of the segment s.
OnLine(pt, s) ==
    LET q == Fraction(pt)
    IN (s.pe.x - s.ps.x) * (q[2] - s.ps.y * q[3]) = (s.pe.y - s.ps.y) * (q[1] - s.ps.x * q[3])

\* Two edges of the face that are segments, are not neighbours in the loop, and cross.
CrossingEdges ==
    {p \in Members(Heap, "F") \X Members(Heap, "F") :
        /\ p[1] # p[2]
        /\ shape[p[1]].cls = "Segment" /\ shape[p[2]].cls = "Segment"
        /\ next[p[1]] # p[2] /\ prev[p[1]] # p[2]
        /\ ProperCross(shape[p[1]], shape[p[2]])}

\* C6: when two segments of a face that are not neighbours in the loop cross at
\* a point interior to both, isSimple(index) returns false and
\* getSelfIntersections(face, index, false) contains the crossing point.
C6_CrossingFound ==
    made["F"] =>
       \A p \in CrossingEdges :
          /\ ret.op = "isSimple" => ret.val = FALSE
          /\ ret.op = "getSelfIntersections" =>
                \E i \in 1..Len(ret.val) :
                   OnLine(ret.val[i], shape[p[1]]) /\ OnLine(ret.val[i], shape[p[2]])

\* getSelfIntersections has been called on the bowtie (0,0), (1,1), (1,0), (0,1).
C6_Witness ==
    /\ FromPoints(<<point(0, 0), point(1, 1), point(1, 0), point(0, 1)>>)
    /\ CrossingEdges # {}
    /\ ret.op = "getSelfIntersections"
    /\ \E i \in 1..Len(ret.val) : ret.val[i] = [cls |-> "Point", xn |-> 1, yn |-> 1, d |-> 2]

---------------------------------------------------------------------------
(* Two faces in one index, arcs among the edges: SpecScan *)

\* The upper and the lower half of the circle of centre (1, 1) and radius 1,
\* and its first quarter.
upperHalf == arc(point(1, 1), 1, 0, 2, TRUE)

lowerHalf == arc(point(1, 1), 1, 2, 0, TRUE)

firstQuarter == arc(point(1, 1), 1, 0, 1, TRUE)

\* Loops with arcs: a circle (one edge), two half circles, a half circle and its
\* diameter, a quarter circle with two radii, and a half circle with two chords
\* that meet at its top.
ArcLoops ==
    {circle(point(1, 1), 1),
     array(<<upperHalf, lowerHalf>>),
     array(<<upperHalf, segment(point(0, 1), point(2, 1))>>),
     array(<<firstQuarter, segment(point(1, 2), point(1, 1)), segment(point(1, 1), point(2, 1))>>),
     array(<<upperHalf, segment(point(0, 1), point(1, 2)), segment(point(1, 2), point(2, 1))>>)}

\* The first face: a loop with arcs, a triangle of the grid, or the bowtie.
ScanArgs ==
    {<<a>> : a \in ArcLoops} \cup
    {<<array(<<a, b, c>>)>> : a, b, c \in GridPoints} \cup
    {<<array(<<point(0, 0), point(1, 1), point(1, 0), point(0, 1)>>)>>}

\* The other face of the polygon: one segment.
OtherArgs2 ==
    {<<array(<<segment(point(1, 0), point(0, 1))>>)>>,
     <<array(<<segment(point(1, 0), point(1, 2))>>)>>}

NextScan ==
    \/ ~made["F"] /\ ret.op = "none"
          /\ \E a \in {x \in ScanArgs : x[1].cls = "Array" => Distinct(x[1].items)} :
                Construct("F", a)
    \/ made["F"] /\ \E a \in OtherArgs2 : Construct("G", a)
    \/ \E f \in Faces :
          \/ FaceIsSimple(f)
          \/ FaceGetSelfIntersections(f)

SpecScan == InitGeom /\ [][NextScan]_vars

---------------------------------------------------------------------------
(* Claims checked under SpecScan *)

\* The points of a sequence of points.
Points(ip) == {ip[i] : i \in 1..Len(ip)}

\* pt is the joint of edge e1 and its next or previous edge e2.
Joint(h, e1, e2, pt) ==
    \/ equalTo(pt, end(h.shape[e1])) /\ equalTo(pt, start(h.shape[e2])) /\ e2 = h.next[e1]
    \/ equalTo(pt, start(h.shape[e1])) /\ equalTo(pt, end(h.shape[e2])) /\ e2 = h.prev[e1]

\* The points where two different edges of face f meet, joints apart.
OwnCrossings(h, f) ==
    UNION {{pt \in Points(intersect(h.shape[e1], h.shape[e2])) : ~Joint(h, e1, e2, pt)} :
              <<e1, e2>> \in {q \in Members(h, f) \X Members(h, f) : q[1] # q[2]}}

\* The points where an edge of face f meets an edge of the index that is not
\* of face f.
ForeignPoints(h, f) ==
    UNION {Points(intersect(h.shape[e1], h.shape[e2])) :
              <<e1, e2>> \in Members(h, f) \X (h.edges \ Members(h, f))}

\* The end of every edge of f is the start of its next edge.
TailToHead(h, f) ==
    \A e \in Members(h, f) : equalTo(end(h.shape[e]), start(h.shape[h.next[e]]))

\* C16: the scan that exits on the first point returns at most one point, and a
\* point exactly when the full scan returns one; isSimple is true exactly when
\* the full scan returns nothing, for every face, with or without edges of
\* another face in the index.
C16_EarlyExitAgrees ==
    /\ \A f \in Faces :
          made[f] =>
             LET one == getSelfIntersections(Heap, f, TRUE)
                 all == getSelfIntersections(Heap, f, FALSE)
             IN /\ Len(one) <= 1
                /\ Len(one) > 0 <=> Len(all) > 0
                /\ isSimple(Heap, f) <=> Len(all) = 0
    /\ ret.op = "isSimple" =>
          ret.val = (Len(getSelfIntersections(Heap, ret.f, FALSE)) = 0)

\* isSimple has just returned false for a face whose full scan has two points or
\* more.
C16_Witness ==
    /\ ret.op = "isSimple"
    /\ ret.val = FALSE
    /\ Len(getSelfIntersections(Heap, ret.f, FALSE)) >= 2

\* C17: for a face whose edges connect tail to head and meet nowhere but at the
\* joints, every point that getSelfIntersections returns is a point of an edge of
\* another face: no joint is reported, and with the edges of this face alone in
\* the index the result is empty and isSimple is true.
C17_JointsNotReported ==
    /\ \A f \in Faces :
          made[f] /\ TailToHead(Heap, f) /\ OwnCrossings(Heap, f) = {} =>
             /\ Points(getSelfIntersections(Heap, f, FALSE)) \subseteq ForeignPoints(Heap, f)
             /\ ForeignPoints(Heap, f) = {} => isSimple(Heap, f)
    /\ /\ ret.op \in {"isSimple", "getSelfIntersections"}
       /\ TailToHead(Heap, ret.f)
       /\ OwnCrossings(Heap, ret.f) = {}
       /\ ForeignPoints(Heap, ret.f) = {}
       => ret.val = IF ret.op = "isSimple" THEN TRUE ELSE <<>>

\* getSelfIntersections has just returned nothing for a loop of two arcs, each
\* the next and the previous edge of the other, that meet at both joints.
C17_Witness ==
    /\ ret.op = "getSelfIntersections"
    /\ ret.val = <<>>
    /\ LET e == first[ret.f]
       IN /\ e # NoEdge
          /\ next[e] # e
          /\ next[e] = prev[e]
          /\ shape[e].cls = "Arc"
          /\ shape[next[e]].cls = "Arc"
          /\ Points(intersect(shape[e], shape[next[e]])) # {}

\* C18: every point that getSelfIntersections returns for a face is a point
\* where two edges of that face meet, and isSimple is true for a face whose edges
\* meet at joints only, whatever else the index holds.
C18_OnlyOwnCrossings ==
    /\ \A f \in Faces :
          made[f] =>
             /\ Points(getSelfIntersections(Heap, f, FALSE)) \subseteq OwnCrossings(Heap, f)
             /\ OwnCrossings(Heap, f) = {} => isSimple(Heap, f)
    /\ ret.op = "isSimple" /\ OwnCrossings(Heap, ret.f) = {} => ret.val = TRUE

---------------------------------------------------------------------------
(* Every way to construct a face, then append/insert/remove: SpecAll *)

\* The caller of the two-edge constructor (the clip algorithm) has created k
\* edges and linked each to the next.  The constructor assumes that they are in
\* polygon.edges already; they are (registered), or they are in the index of
\* another polygon only.
RECURSIVE linkChain(_, _, _, _)
linkChain(h, k, i, registered) ==
    IF i > k THEN h
    ELSE LET h1 == newEdge(h, EdgeShape(h.nEdges + 1))
             e == h1.nEdges
             h2 == IF i = 1 THEN h1
                   ELSE [h1 EXCEPT !.next[e - 1] = e, !.prev[e] = e - 1]
             h3 == IF registered THEN [h2 EXCEPT !.edges = @ \cup {e}] ELSE h2
         IN linkChain(h3, k, i + 1, registered)

\* f = new Face(polygon, first, last) on a chain of k edges the caller has linked.
FacePair(f) ==
    \E k \in 1..2, registered \in BOOLEAN :
       /\ ~made[f]
       /\ nEdges + k <= MaxEdges
       /\ LET h1 == linkChain(Heap, k, 1, registered)
              a == <<edgeRef(nEdges + 1), edgeRef(nEdges + k)>>
              c == construct(h1, f, a)
          IN /\ Store(collect(c.h))
             /\ args' = a
             /\ ret' = [op |-> "new", f |-> f, val |-> c.val]
       /\ made' = [made EXCEPT ![f] = TRUE]
       /\ hist' = NoHist

\* One argument list for each branch of the constructor.
BranchArgs ==
    {<<>>,
     <<array(<<>>)>>,
     <<array(<<point(0, 0), point(2, 1)>>)>>,
     <<array(<<aSegment, anArc>>)>>,
     <<array(<<record("arc", anArc)>>)>>,
     <<array(<<null>>)>>,
     <<circle(point(1, 1), 1)>>,
     <<Box(0, 0, 2, 1)>>,
     <<number>>}

InitAll ==
    /\ InitHeap
    /\ made = [f \in Faces |-> FALSE]
    /\ args = <<>>
    /\ ret = [op |-> "none", f |-> "F", val |-> TRUE]
    /\ hist = NoHist

\* F is built by any branch but the copy, G is a copy of F; when F has been
\* copied and discarded, the name F is free for another face.
NextAll ==
    \/ \E a \in BranchArgs : Construct("F", a)
    \/ FacePair("F")
    \/ made["F"] /\ Construct("G", <<faceRef("F")>>)
    \/ \E f \in Faces :
          \/ FaceAppend(f)
          \/ FaceInsert(f)
          \/ FaceRemove(f)

SpecAll == InitAll /\ [][NextAll]_vars

---------------------------------------------------------------------------
(* Claims checked under SpecAll *)

EmptyInputs == {<<>>, <<array(<<>>)>>}

CopyStep == ret'.op = "new" /\ ret'.f = "G" /\ args' = <<faceRef("F")>>

\* C15: construction of G from the face F returns with G.first = F.first and
\* G.last = F.last, creates no edge and no shape, adds the edges of the loop of F
\* to polygon.edges, and changes no link, arc length or face reference of an
\* edge; after it G and F iterate over the same edges in the same order.
C15_Step ==
    CopyStep =>
       /\ ret'.val = "returned"
       /\ first'["G"] = first["F"] /\ last'["G"] = last["F"]
       /\ first'["F"] = first["F"] /\ last'["F"] = last["F"]
       /\ nEdges' = nEdges
       /\ shape' = shape
       /\ next' = next /\ prev' = prev
       /\ arc_length' = arc_length
       /\ face' = face
       /\ edges' = edges \cup Members(Heap, "F")
       /\ faceIter(Heap', "F") = faceIter(Heap, "F")
       /\ faceIter(Heap', "G") = faceIter(Heap', "F")

C15_FaceCopy == [][C15_Step]_vars

\* C15 witness: G has just been made from a face of two edges; the edges are in
\* polygon.edges and refer back to F.
C15_Witness ==
    /\ ret.op = "new" /\ ret.f = "G" /\ args = <<faceRef("F")>>
    /\ size(Heap, "G") = 2
    /\ first["G"] = first["F"]
    /\ \A e \in Members(Heap, "G") : face[e] = "F" /\ e \in edges

\* C20: however a face was constructed, and whatever append, insert and remove
\* calls followed, every edge reachable from its first along next refers back to
\* that face (reverse() assigns no back-reference).
C20_BackReference ==
    \A f \in Faces :
       made[f] /\ iterEnds(Heap, f) =>
          \A e \in Members(Heap, f) : face[e] = f

---------------------------------------------------------------------------
(* One face from its construction on, with its exports: SpecOne *)

\* edge.svg(): the path fragment of the shape, as the list of its parts.
edgeSvg(s) ==
    IF s.cls = "Arc"
    THEN <<"A", s.r, s.r, 0, IF sweep(s) <= 2 THEN 0 ELSE 1,
           IF s.counterClockwise THEN 1 ELSE 0, end(s).x, end(s).y>>
    ELSE <<"L", end(s).x, end(s).y>>

RECURSIVE svgFrom(_, _, _)
svgFrom(h, es, i) ==
    IF i > Len(es) THEN <<>> ELSE edgeSvg(h.shape[es[i]]) \o svgFrom(h, es, i + 1)

\* svg(): reads this.first.start first: on an empty face that is a TypeError.
svg(h, f) ==
    IF h.first[f] = NoEdge THEN [end |-> "TypeError", val |-> <<>>]
    ELSE [end |-> "returned",
          val |-> <<"M", start(h.shape[h.first[f]]).x, start(h.shape[h.first[f]]).y>>
                     \o svgFrom(h, faceIter(h, f), 1) \o <<"z">>]

\* edge.toJSON(): the fields of the shape and its name.
edgeToJSON(s) == record(IF s.cls = "Arc" THEN "arc" ELSE "segment", s)

RECURSIVE toJSONFrom(_, _, _)
toJSONFrom(h, es, i) ==
    IF i > Len(es) THEN <<>> ELSE <<edgeToJSON(h.shape[es[i]])>> \o toJSONFrom(h, es, i + 1)

\* toJSON()
toJSON(h, f) == toJSONFrom(h, faceEdges(h, f), 1)

\* face.svg()
FaceSvg(f) ==
    /\ made[f]
    /\ iterEnds(Heap, f)
    /\ ret' = [op |-> "svg", f |-> f, val |-> svg(Heap, f).val, end |-> svg(Heap, f).end]
    /\ hist' = NoHist
    /\ UNCHANGED <<first, last, _box, _orientation, next, prev, shape, face,
                   arc_length, edges, nEdges, made, args>>

\* face.toJSON()
FaceToJSON(f) ==
    /\ made[f]
    /\ iterEnds(Heap, f)
    /\ ret' = [op |-> "toJSON", f |-> f, val |-> toJSON(Heap, f), end |-> "returned"]
    /\ hist' = NoHist
    /\ UNCHANGED <<first, last, _box, _orientation, next, prev, shape, face,
                   arc_length, edges, nEdges, made, args>>

\* face.size
FaceSize(f) ==
    /\ made[f]
    /\ iterEnds(Heap, f)
    /\ ret' = [op |-> "size", f |-> f, val |-> size(Heap, f), end |-> "returned"]
    /\ hist' = NoHist
    /\ UNCHANGED <<first, last, _box, _orientation, next, prev, shape, face,
                   arc_length, edges, nEdges, made, args>>

\* face.edges
FaceEdges(f) ==
    /\ made[f]
    /\ iterEnds(Heap, f)
    /\ ret' = [op |-> "edges", f |-> f, val |-> faceEdges(Heap, f), end |-> "returned"]
    /\ hist' = NoHist
    /\ UNCHANGED <<first, last, _box, _orientation, next, prev, shape, face,
                   arc_length, edges, nEdges, made, args>>

\* The arguments of the constructions from points, shapes, a circle and a box,
\* and of the two that give an empty face.
OneArgs ==
    {<<>>,
     <<array(<<>>)>>,
     <<array(<<point(0, 0), point(2, 1)>>)>>,
     <<array(<<aSegment, anArc>>)>>,
     <<circle(point(1, 1), 1)>>,
     <<Box(0, 0, 2, 1)>>}

NextOne ==
    \/ ret.op = "none" /\ \E a \in OneArgs : Construct("F", a)
    \/ FaceAppend("F")
    \/ FaceInsert("F")
    \/ FaceRemove("F")
    \/ FaceReverse("F")
    \/ FaceSvg("F")
    \/ FaceToJSON("F")
    \/ FaceSize("F")
    \/ FaceEdges("F")

SpecOne == InitAll /\ [][NextOne]_vars

---------------------------------------------------------------------------
(* Claims checked under SpecOne *)

\* C11: every operation returns in every state of a face, the empty face
\* included: no iteration over the face goes on for ever; reverse() returns, and
\* on an empty face leaves it empty; svg() returns a string; size, edges, box,
\* signedArea(), orientation(), setArcLength() and toJSON() return.
C11_OperationsReturn ==
    made["F"] =>
       /\ iterEnds(Heap, "F")
       /\ ~reverseThrows(Heap, "F")
       /\ ret.op = "reverse" => ret.val = "returned"
       /\ svg(Heap, "F").end = "returned"
       /\ ret.op \in {"svg", "toJSON", "size", "edges"} => ret.end = "returned"

\* What one step that leaves face F made does to the index: it holds the edges of
\* the loop of F, and one more after append and insert, one fewer after remove,
\* every created edge after the construction, and as many as before otherwise.
C19_Step ==
    made'["F"] =>
       /\ edges' = Members(Heap', "F")
       /\ size(Heap', "F") = Cardinality(edges')
       /\ Cardinality(edges') =
             CASE ret'.op = "new" -> nEdges'
               [] ret'.op \in {"append", "insert"} -> Cardinality(edges) + 1
               [] ret'.op = "remove" -> Cardinality(edges) - 1
               [] OTHER -> Cardinality(edges)
       /\ ret'.op = "size" => ret'.val = Cardinality(edges')

\* C19: for one face built on an empty index from nothing, points, shapes, a
\* circle or a box, then changed by append, insert, remove and reverse, the index
\* holds exactly the edges reachable from first along next, and size() is the
\* number of edges added less the number removed.
C19_IndexIsLoop == [][C19_Step]_vars

\* remove has just left a loop of two edges or more, all of them in the index.
C19_Witness ==
    /\ ret.op = "remove"
    /\ Cardinality(edges) >= 2
    /\ nEdges > Cardinality(edges)
    /\ edges = Members(Heap, "F")
    /\ size(Heap, "F") = Cardinality(edges)

====
